---- MODULE Spec2Model ----
(***************************************************************************)
(* Model of distil-timeseries-loader: the wide pipeline                    *)
(* (TimeSeriesLoaderPrimitive, timeseries_loader.py) and the long pipeline *)
(* (TimeSeriesFormatterPrimitive, timeseries_formatter.py).                *)
(*                                                                         *)
(* One behaviour is one primitive instance with its hyperparameters and    *)
(* one input (annotations chosen in Init, table rows and series files      *)
(* chosen when produce first touches them), on which can_accept may be     *)
(* probed and produce is run step by step: column resolution, base path,   *)
(* one step per input row, final wrap.                                     *)
(*                                                                         *)
(* Encoding of Python values:                                              *)
(*   - Optional[int]  : None / Some(i) records                             *)
(*   - a metadata dict: a record; a key that may be missing carries an     *)
(*     explicit "absent" marker, and d['k'] on it raises KeyError while    *)
(*     d.get('k', default) yields the default                              *)
(*   - a function that may raise returns the exception's class name        *)
(*   - NaN (pandas' missing cell) is the integer NaN below                 *)
(***************************************************************************)
EXTENDS Integers, Sequences, FiniteSets, TLC

(* ------------------------------ bounds -------------------------------- *)
\* number of columns of the input table (wide) / main resource (long)
MaxCols == 2
\* largest number of rows of the input table
MaxRows == 2

(* --------------------------- python values ---------------------------- *)
None == [some |-> FALSE, v |-> 0]
Some(i) == [some |-> TRUE, v |-> i]

\* class-level tuples of the two primitives
Loader_semantic_types == {"FileName", "Timeseries"}
Loader_media_types == {"text/csv"}
Formatter_semantic_types == {"FileName", "Timeseries", "Text", "Attribute"}
Formatter_media_types == {"text/csv"}

\* hyperparameter defaults of the wide pipeline (0-based column positions
\* inside a series file)
time_col_index == 0
value_col_index == 1

(* ----------------------------- annotations ---------------------------- *)
NoFK == [kind |-> "absent", resource_id |-> "", column_index |-> 0]
NoneFK == [kind |-> "None", resource_id |-> "", column_index |-> 0]
FK(r, c) == [kind |-> "link", resource_id |-> r, column_index |-> c]

NoUris == [declared |-> FALSE, uris |-> <<>>]
Uris(s) == [declared |-> TRUE, uris |-> s]

\* what query() returns for a selector nothing was ever set on: an empty dict
NoAnnotation ==
    [present |-> FALSE, structural_type |-> "absent", semantic_types |-> {},
     media_types |-> {}, foreign_key |-> NoFK, location_base_uris |-> NoUris]

Ann(st, tags, media, fk, uris) ==
    [present |-> TRUE, structural_type |-> st, semantic_types |-> tags,
     media_types |-> media, foreign_key |-> fk, location_base_uris |-> uris]

\* resource ids of a Dataset; a DataFrame's metadata (wide pipeline) is kept
\* under the single key DF
MainRes == "1"
RefRes == "0"
DF == "df"

\* inputs_metadata.query((res_id, ALL_ELEMENTS, column_index)), 0-based column
query(md, res_id, column_index) ==
    IF res_id \in DOMAIN md /\ column_index \in 0..(Len(md[res_id]) - 1)
    THEN md[res_id][column_index + 1]
    ELSE NoAnnotation

\* common_primitives.utils.list_columns_with_semantic_types: the columns of
\* a resource carrying at least one of the given semantic types, ascending
RECURSIVE ColumnsFrom(_, _, _, _)
ColumnsFrom(md, res_id, types, c) ==
    IF res_id \notin DOMAIN md \/ c >= Len(md[res_id]) THEN <<>>
    ELSE (IF query(md, res_id, c).semantic_types \cap types # {}
          THEN <<c>> ELSE <<>>) \o ColumnsFrom(md, res_id, types, c + 1)

list_columns_with_semantic_types(md, types, res_id) ==
    ColumnsFrom(md, res_id, types, 0)

(* ------------------------- wide: column resolver ---------------------- *)
\* variant: any one of the class's semantic types is enough
Loader_is_csv_file_column_any(md, column_index) ==
    LET column_metadata == query(md, DF, column_index) IN
    IF ~column_metadata.present THEN "False"
    ELSE IF column_metadata.structural_type = "absent" THEN "KeyError"
    ELSE IF column_metadata.structural_type # "str" THEN "False"
    ELSE IF /\ Loader_semantic_types \cap column_metadata.semantic_types # {}
            /\ Loader_media_types \subseteq column_metadata.media_types
         THEN "True" ELSE "False"

\* TimeSeriesLoaderPrimitive._is_csv_file_column: "True", "False", "KeyError"
Loader_is_csv_file_column(md, column_index) ==
    LET column_metadata == query(md, DF, column_index) IN
    IF ~column_metadata.present THEN "False"
    ELSE IF column_metadata.structural_type = "absent" THEN "KeyError"
    ELSE IF column_metadata.structural_type # "str" THEN "False"
    ELSE IF /\ Loader_semantic_types \subseteq column_metadata.semantic_types
            /\ Loader_media_types \subseteq column_metadata.media_types
         THEN "True" ELSE "False"

\* the for loop of _find_csv_file_column over the candidate indices
RECURSIVE Loader_first_match(_, _)
Loader_first_match(md, indices) ==
    IF indices = <<>> THEN [raised |-> "none", index |-> None]
    ELSE LET r == Loader_is_csv_file_column(md, Head(indices)) IN
         IF r = "KeyError" THEN [raised |-> "KeyError", index |-> None]
         ELSE IF r = "True" THEN [raised |-> "none", index |-> Some(Head(indices))]
         ELSE Loader_first_match(md, Tail(indices))

\* TimeSeriesLoaderPrimitive._find_csv_file_column
Loader_find_csv_file_column(md) ==
    Loader_first_match(md,
        list_columns_with_semantic_types(md, Loader_semantic_types, DF))

(* ------------------------- long: column resolver ---------------------- *)
\* variant: the media types of the referenced column are not looked at
Formatter_is_csv_file_reference_any_media(md, res_id, column_index) ==
    LET column_metadata == query(md, res_id, column_index) IN
    IF ~column_metadata.present THEN "False"
    ELSE IF column_metadata.structural_type = "absent" THEN "KeyError"
    ELSE IF column_metadata.structural_type # "str" THEN "False"
    ELSE IF column_metadata.semantic_types \cap Formatter_semantic_types # {}
         THEN "True" ELSE "False"

\* TimeSeriesFormatterPrimitive._is_csv_file_reference
Formatter_is_csv_file_reference(md, res_id, column_index) ==
    LET column_metadata == query(md, res_id, column_index) IN
    IF ~column_metadata.present THEN "False"
    ELSE IF column_metadata.structural_type = "absent" THEN "KeyError"
    ELSE IF column_metadata.structural_type # "str" THEN "False"
    ELSE IF /\ column_metadata.semantic_types \cap Formatter_semantic_types # {}
            /\ Formatter_media_types \subseteq column_metadata.media_types
         THEN "True" ELSE "False"

\* TimeSeriesFormatterPrimitive._is_csv_file_column
Formatter_is_csv_file_column(md, res_id, column_index) ==
    LET column_metadata == query(md, res_id, column_index) IN
    IF ~column_metadata.present THEN "False"
    ELSE IF column_metadata.structural_type = "absent" THEN "KeyError"
    ELSE IF column_metadata.structural_type # "str" THEN "False"
    ELSE IF column_metadata.foreign_key.kind = "absent" THEN "KeyError"
    ELSE IF column_metadata.foreign_key.kind = "None" THEN "False"
    ELSE Formatter_is_csv_file_reference(md,
             column_metadata.foreign_key.resource_id,
             column_metadata.foreign_key.column_index)

RECURSIVE Formatter_first_match(_, _, _)
Formatter_first_match(md, res_id, indices) ==
    IF indices = <<>> THEN [raised |-> "none", index |-> None]
    ELSE LET r == Formatter_is_csv_file_column(md, res_id, Head(indices)) IN
         IF r = "KeyError" THEN [raised |-> "KeyError", index |-> None]
         ELSE IF r = "True" THEN [raised |-> "none", index |-> Some(Head(indices))]
         ELSE Formatter_first_match(md, res_id, Tail(indices))

\* TimeSeriesFormatterPrimitive._find_csv_file_column(inputs_metadata, res_id)
Formatter_find_csv_file_column(md, res_id) ==
    Formatter_first_match(md, res_id,
        list_columns_with_semantic_types(md, Formatter_semantic_types, res_id))

(* ------------------------------ can_accept ---------------------------- *)
\* TimeSeriesLoaderPrimitive.can_accept after super().can_accept matched:
\* "inputs_metadata" (match), "output_metadata" (the early returns),
\* "None" (no match) or the class of the exception it lets escape
Loader_can_accept(method_name, has_inputs, md, hp) ==
    IF method_name # "produce" THEN "output_metadata"
    ELSE IF ~has_inputs THEN "output_metadata"
    ELSE IF hp.file_col_index.some
    THEN LET can_use_column == Loader_is_csv_file_column(md, hp.file_col_index.v) IN
         IF can_use_column = "KeyError" THEN "KeyError"
         ELSE IF can_use_column = "False" THEN "None" ELSE "inputs_metadata"
    ELSE LET inferred_index == Loader_find_csv_file_column(md) IN
         IF inferred_index.raised # "none" THEN inferred_index.raised
         ELSE IF ~inferred_index.index.some THEN "None" ELSE "inputs_metadata"

\* TimeSeriesFormatterPrimitive.can_accept after super().can_accept matched
Formatter_can_accept(method_name, has_inputs, md, hp) ==
    IF method_name # "produce" THEN "output_metadata"
    ELSE IF ~has_inputs THEN "output_metadata"
    ELSE IF hp.main_resource_index = "None" THEN "None"
    ELSE IF hp.file_col_index.some
    THEN LET can_use_column ==
                 Formatter_is_csv_file_column(md, hp.main_resource_index,
                                              hp.file_col_index.v) IN
         IF can_use_column = "KeyError" THEN "KeyError"
         ELSE IF can_use_column = "False" THEN "None" ELSE "inputs_metadata"
    ELSE LET inferred_index ==
                 Formatter_find_csv_file_column(md, hp.main_resource_index) IN
         IF inferred_index.raised # "none" THEN inferred_index.raised
         ELSE IF ~inferred_index.index.some THEN "None" ELSE "inputs_metadata"

(* ------------------------------ exceptions ---------------------------- *)
\* an exception: its class, the place of produce that raised it, its message
NoErr == [type |-> "none", at |-> "", msg |-> ""]
Exc(type, at, msg) == [type |-> type, at |-> at, msg |-> msg]

(* ------------------------- produce: column resolver ------------------- *)
\* outcome of a resolution step: the exception raised (or NoErr), the
\* resolved column, and whether _find_csv_file_column was run
Resolved(e, i, inf) == [err |-> e, file_index |-> i, inferred |-> inf]

\* TimeSeriesLoaderPrimitive.produce, the file_col_index branch
Loader_resolve(md, hp) ==
    IF hp.file_col_index.some
    THEN LET r == Loader_is_csv_file_column(md, hp.file_col_index.v) IN
         IF r = "KeyError"
         THEN Resolved(Exc("KeyError", "column", "structural_type"), None, FALSE)
         ELSE IF r = "False"
         THEN Resolved(Exc("InvalidArgumentValueError", "column",
                           "column idx does not contain csv file names"),
                       None, FALSE)
         ELSE Resolved(NoErr, hp.file_col_index, FALSE)
    ELSE LET r == Loader_find_csv_file_column(md) IN
         IF r.raised # "none"
         THEN Resolved(Exc(r.raised, "inference", "structural_type"), None, TRUE)
         ELSE IF ~r.index.some
         THEN Resolved(Exc("InvalidArgumentValueError", "inference",
                           "no column contains csv file names"),
                       None, TRUE)
         ELSE Resolved(NoErr, r.index, TRUE)

\* TimeSeriesFormatterPrimitive.produce, main_resource_index and
\* file_col_index branches.  The inference branch calls
\* self._find_csv_file_column(inputs.metadata) without res_id: Python raises
\* TypeError (missing positional argument) before the function body runs.
Formatter_resolve(md, hp) ==
    IF hp.main_resource_index = "None"
    THEN Resolved(Exc("InvalidArgumentValueError", "main_resource",
                      "no main resource specified"), None, FALSE)
    ELSE IF hp.file_col_index.some
    THEN LET r == Formatter_is_csv_file_column(md, hp.main_resource_index,
                                               hp.file_col_index.v) IN
         IF r = "KeyError"
         THEN Resolved(Exc("KeyError", "column", "missing key"), None, FALSE)
         ELSE IF r = "False"
         THEN Resolved(Exc("InvalidArgumentValueError", "column",
                           "column idx does not contain csv file names"),
                       None, FALSE)
         ELSE Resolved(NoErr, hp.file_col_index, FALSE)
    ELSE Resolved(Exc("TypeError", "inference",
                      "missing 1 required positional argument: res_id"),
                  None, FALSE)

(* --------------------------- produce: base path ----------------------- *)
\* variant: the last declared base URI instead of the first
First_base_uri_last(column_metadata) ==
    IF ~column_metadata.location_base_uris.declared
    THEN [raised |-> "KeyError", path |-> ""]
    ELSE IF column_metadata.location_base_uris.uris = <<>>
    THEN [raised |-> "IndexError", path |-> ""]
    ELSE [raised |-> "none",
          path |-> column_metadata.location_base_uris.uris[
                       Len(column_metadata.location_base_uris.uris)]]

\* d['location_base_uris'][0] on a column's metadata
First_base_uri(column_metadata) ==
    IF ~column_metadata.location_base_uris.declared
    THEN [raised |-> "KeyError", path |-> ""]
    ELSE IF column_metadata.location_base_uris.uris = <<>>
    THEN [raised |-> "IndexError", path |-> ""]
    ELSE [raised |-> "none", path |-> column_metadata.location_base_uris.uris[1]]

\* TimeSeriesLoaderPrimitive.produce: base_path = inputs.metadata.query(
\*   (ALL_ELEMENTS, file_index))['location_base_uris'][0]
Loader_base_path(md, column_index) ==
    First_base_uri(query(md, DF, column_index))

\* TimeSeriesFormatterPrimitive._get_base_path
Formatter_get_base_path(md, res_id, column_index) ==
    LET column_metadata == query(md, res_id, column_index) IN
    First_base_uri(query(md, column_metadata.foreign_key.resource_id,
                         column_metadata.foreign_key.column_index))

\* TimeSeriesFormatterPrimitive._get_ref_resource
Formatter_get_ref_resource(md, res_id, column_index) ==
    query(md, res_id, column_index).foreign_key.resource_id

(* ------------------------------ data frames --------------------------- *)
\* pandas' missing cell
NaN == 0 - 1

\* row / column labels: a name (a str) or a position (an int)
Name(n) == [kind |-> "name", name |-> n, pos |-> 0]
Pos(i) == [kind |-> "pos", name |-> "", pos |-> i]

Range(s) == {s[k] : k \in 1..Len(s)}

Min(S) == CHOOSE x \in S : \A y \in S : x <= y

\* the elements of a finite set of integers, ascending (Index.difference
\* returns its result sorted)
RECURSIVE SortedSeq(_)
SortedSeq(S) ==
    IF S = {} THEN <<>> ELSE <<Min(S)>> \o SortedSeq(S \ {Min(S)})

\* pd.read_csv(csv_path): a readable series file is its data rows, each a
\* tuple of the cells under the header (time, value)
SeriesColumns == <<"time", "value">>

\* pd.read_csv(csv_path).transpose().iloc[i]: column i of the file as a Series
\* indexed by the row positions 0..T-1 and named after the column
Transposed_row(file_rows, i) == [k \in 1..Len(file_rows) |-> file_rows[k][i + 1]]

\* a frame: column labels, row labels, rows of cells; bound = FALSE is the
\* local variable before its first assignment
UnboundFrame == [bound |-> FALSE, columns |-> <<>>, index |-> <<>>, rows |-> <<>>]
EmptyFrame == [bound |-> TRUE, columns |-> <<>>, index |-> <<>>, rows |-> <<>>]

\* pd.DataFrame(columns=timeseries_row.iloc[time_index])
DataFrame_with_columns(times) ==
    [bound |-> TRUE, columns |-> times, index |-> <<>>, rows |-> <<>>]

\* DataFrame.append(series) for a named Series indexed by 0..T-1: pandas
\* aligns the Series on the frame's column LABELS.  Labels of the Series the
\* frame lacks become new columns (after the existing ones, ascending),
\* existing rows get NaN there, and the new row has NaN under every column
\* whose label the Series lacks.
DataFrame_append_series(df, values, name) ==
    LET T == Len(values)
        idx_diff == SortedSeq((0..(T - 1)) \ Range(df.columns))
        combined_columns == df.columns \o idx_diff
        other == [k \in 1..Len(combined_columns) |->
                     IF combined_columns[k] \in 0..(T - 1)
                     THEN values[combined_columns[k] + 1] ELSE NaN]
        pad == [k \in 1..Len(idx_diff) |-> NaN]
    IN  [bound |-> TRUE,
         columns |-> combined_columns,
         index |-> Append(df.index, Name(name)),
         rows |-> Append([r \in 1..Len(df.rows) |-> df.rows[r] \o pad], other)]

\* DataFrame.reset_index(drop=True)
DataFrame_reset_index(df) ==
    [df EXCEPT !.index = [k \in 1..Len(df.index) |-> Pos(k - 1)]]

\* the body of the wide loop for row idx after a successful read
Loader_fold_row(df, i, file_rows) ==
    LET start == IF i = 0
                 THEN DataFrame_with_columns(Transposed_row(file_rows, time_col_index))
                 ELSE df
    IN  DataFrame_append_series(start,
                                Transposed_row(file_rows, value_col_index),
                                SeriesColumns[value_col_index + 1])

\* a Series as an ordered list of labelled fields
Field(l, v) == [label |-> l, value |-> v]

\* variant: a 1-based identifier
Formatter_augment_one_based(tRow, i) == Append(tRow, Field(Pos(0), i + 1))

\* tRow = tRow.append(pd.Series(idx)): the main row's fields followed by one
\* field labelled 0 holding idx
Formatter_augment(tRow, i) == Append(tRow, Field(Pos(0), i))

\* a row of the series file as iterrows() yields it
Formatter_vRow(file_row) ==
    [k \in 1..Len(file_row) |-> Field(Name(SeriesColumns[k]), file_row[k])]

\* variant: a main row whose series file has no row is kept as one output row
Formatter_emit_rows_outer(tRow, file_rows) ==
    IF file_rows = <<>> THEN <<tRow>>
    ELSE [k \in 1..Len(file_rows) |-> tRow \o Formatter_vRow(file_rows[k])]

\* the inner loop of the long pipeline: one combined_data Series per row of
\* the series file, in file order
Formatter_emit_rows(tRow, file_rows) ==
    [k \in 1..Len(file_rows) |-> tRow \o Formatter_vRow(file_rows[k])]

\* the column names in Python's str order
Alphabetical ==
    <<"d3mIndex", "label", "site", "time", "timeseries_file", "unit", "value">>

\* sorting.safe_sort on labels of mixed type: the ints ascending, then the
\* strs in str order
Label_key(l) ==
    IF l.kind = "pos" THEN l.pos
    ELSE 1000 + (CHOOSE k \in 1..Len(Alphabetical) : Alphabetical[k] = l.name)

RECURSIVE Safe_sort(_)
Safe_sort(L) ==
    IF L = {} THEN <<>>
    ELSE LET first == CHOOSE l \in L : \A m \in L : Label_key(l) <= Label_key(m)
         IN  <<first>> \o Safe_sort(L \ {first})

\* Series.reindex(columns): the Series' value under each column label, NaN
\* where the Series has no such label
Series_reindex(series, columns) ==
    [k \in 1..Len(columns) |->
        IF \E f \in 1..Len(series) : series[f].label = columns[k]
        THEN series[CHOOSE f \in 1..Len(series) : series[f].label = columns[k]]
        ELSE Field(columns[k], NaN)]

\* DataFrame.append(series, ignore_index=True): the labels of the Series the
\* frame lacks (Index.difference, which sorts its result) become new columns
\* after the existing ones, the Series is reindexed to the columns, and the
\* row index is positional
DataFrame_append_labelled(df, series) ==
    LET idx_diff == Safe_sort({series[f].label : f \in 1..Len(series)}
                                  \ Range(df.columns))
        combined_columns == df.columns \o idx_diff
    IN  [bound |-> TRUE,
         columns |-> combined_columns,
         index |-> [k \in 1..(Len(df.rows) + 1) |-> Pos(k - 1)],
         rows |-> Append([r \in 1..Len(df.rows) |->
                             Series_reindex(df.rows[r], combined_columns)],
                         Series_reindex(series, combined_columns))]

\* timeseries_dataframe.append(combined_data, ignore_index=True), once per
\* Series, in order
RECURSIVE DataFrame_append_all(_, _)
DataFrame_append_all(df, series) ==
    IF series = <<>> THEN df
    ELSE DataFrame_append_all(DataFrame_append_labelled(df, Head(series)),
                              Tail(series))

\* the metadata d3m generates for a container from its data alone: per
\* column its name and a structural type taken from the dtype ("numpy"),
\* nothing else
Generated_metadata(columns) ==
    [k \in 1..Len(columns) |->
        [name |-> columns[k],
         annotation |-> Ann("numpy", {}, {}, NoFK, NoUris)]]

(* -------------------------------- inputs ------------------------------ *)
Csv == {"text/csv"}

\* Every annotated column declares its structural type (the framework
\* generates it with the container's metadata).

\* column annotations of a wide input table
WideAnnotations ==
    { NoAnnotation,
      Ann("str", {"FileName", "Timeseries"}, Csv, NoFK, Uris(<<"u1", "u2">>)),
      Ann("str", {"FileName", "Timeseries", "Attribute"}, Csv \cup {"text/plain"},
          NoFK, Uris(<<"u2">>)),
      Ann("str", {"FileName", "Timeseries"}, Csv, NoFK, NoUris),
      Ann("str", {"FileName", "Timeseries"}, Csv, NoFK, Uris(<<>>)),
      Ann("str", {"FileName"}, Csv, NoFK, Uris(<<"u1">>)),
      Ann("str", {"FileName", "Timeseries"}, {}, NoFK, Uris(<<"u1">>)),
      Ann("int", {"FileName", "Timeseries"}, Csv, NoFK, Uris(<<"u1">>)) }

\* the columns of the referenced resource of a long input: one of each kind
RefColumns ==
    << Ann("str", {"FileName", "Timeseries"}, Csv, NoFK, Uris(<<"u1", "u2">>)),
       Ann("str", {"Text"}, Csv, NoFK, Uris(<<"u2">>)),
       Ann("str", {"FileName"}, Csv, NoFK, NoUris),
       Ann("str", {"FileName"}, Csv, NoFK, Uris(<<>>)),
       Ann("str", {"FileName"}, {}, NoFK, Uris(<<"u1">>)),
       Ann("int", {"FileName"}, Csv, NoFK, Uris(<<"u1">>)),
       Ann("str", {"FileName", "Timeseries"}, Csv, FK(RefRes, 1), Uris(<<"u1">>)) >>

\* column annotations of the main resource of a long input; a foreign key
\* points at any column of the referenced resource or one past its last
MainAnnotations ==
    { NoAnnotation,
      Ann("int", {"Attribute"}, {}, NoFK, NoUris),
      Ann("str", {"Attribute"}, {}, NoFK, NoUris),
      Ann("str", {"Attribute"}, {}, NoneFK, NoUris),
      Ann("str", {}, {}, FK(RefRes, 0), NoUris) }
    \cup { Ann("str", {"Attribute"}, {}, FK(RefRes, c), NoUris) :
             c \in 0..Len(RefColumns) }

ColumnTuples(S) == [1..MaxCols -> S]

FileColIndexes == {None} \cup {Some(i) : i \in 0..MaxCols}

\* names of the columns of the input table; none of them is a column name of
\* a series file or the label 0 of the appended identifier
ColumnNames == <<"d3mIndex", "timeseries_file", "label", "site", "unit">>

\* the input table: n rows of MaxCols cells, all cells different
Table(n) == [i \in 1..n |-> [c \in 1..MaxCols |-> 10 * i + (c - 1)]]

\* what a read of a series file can give: unreadable, or its data rows
\* <<time, value>> (timestamps distinct within a file)
Unreadable == [readable |-> FALSE, rows |-> <<>>]
Readable(rows) == [readable |-> TRUE, rows |-> rows]

WideFiles ==
    { Unreadable,
      Readable(<<>>),
      Readable(<< <<0, 10>>, <<1, 11>> >>),
      Readable(<< <<1, 20>>, <<2, 21>> >>),
      Readable(<< <<1, 30>>, <<0, 31>> >>),
      Readable(<< <<0, 40>>, <<1, 41>>, <<2, 42>> >>) }

LongFiles ==
    { Unreadable,
      Readable(<<>>),
      Readable(<< <<0, 10>>, <<1, 11>> >>) }

(* --------------------------------- state ------------------------------ *)
VARIABLES
    pipeline,              \* "wide" (TimeSeriesLoader) or "long" (TimeSeriesFormatter)
    hyperparams,           \* file_col_index, main_resource_index
    inputs_metadata,       \* annotations of the input
    accept,                \* the last can_accept call and what it returned
    pc,                    \* position of produce
    file_index,            \* produce's local file_index once resolved
    inferred,              \* _find_csv_file_column was run by produce
    base_path,             \* produce's local base_path
    inputs_rows,           \* rows of the input table (main resource)
    idx,                   \* loop counter: rows handled so far
    reads,                 \* every pd.read_csv call so far, in order
    timeseries_dataframe,  \* produce's accumulating frame
    result,                \* what produce returned
    err                    \* the exception produce raised

vars == <<pipeline, hyperparams, inputs_metadata, accept, pc, file_index,
          inferred, base_path, inputs_rows, idx, reads, timeseries_dataframe,
          result, err>>

config == <<pipeline, hyperparams, inputs_metadata>>
locals == <<file_index, inferred, base_path, inputs_rows, idx, reads,
            timeseries_dataframe, result, err>>

NotCalled == [called |-> FALSE, method_name |-> "", has_inputs |-> FALSE, result |-> ""]
NoResult == [returned |-> FALSE, value |-> UnboundFrame, metadata |-> <<>>]

InitProduce ==
    /\ accept = NotCalled
    /\ pc = "idle"
    /\ file_index = None
    /\ inferred = FALSE
    /\ base_path = ""
    /\ inputs_rows = <<>>
    /\ idx = 0
    /\ reads = <<>>
    /\ timeseries_dataframe = UnboundFrame
    /\ result = NoResult
    /\ err = NoErr

InitWide ==
    /\ pipeline = "wide"
    /\ \E f \in FileColIndexes :
           hyperparams = [file_col_index |-> f, main_resource_index |-> "n/a"]
    /\ \E cols \in ColumnTuples(WideAnnotations) :
           inputs_metadata = [r \in {DF} |-> cols]

InitLong ==
    /\ pipeline = "long"
    /\ \E f \in FileColIndexes, m \in {"None", MainRes} :
           hyperparams = [file_col_index |-> f, main_resource_index |-> m]
    /\ \E cols \in ColumnTuples(MainAnnotations) :
           inputs_metadata = [r \in {MainRes, RefRes} |->
                                 IF r = MainRes THEN cols ELSE RefColumns]

Init == (InitWide \/ InitLong) /\ InitProduce

(* ------------------------------- can_accept --------------------------- *)
\* the calls made: method 'produce' with or without the 'inputs' argument,
\* and another method
CanAcceptCalls ==
    { [method_name |-> "produce", has_inputs |-> TRUE],
      [method_name |-> "produce", has_inputs |-> FALSE],
      [method_name |-> "multi_produce", has_inputs |-> TRUE] }

\* a can_accept call on the input's annotations and the instance's
\* hyperparameters (super().can_accept matching the structural types)
Loader_CanAccept ==
    /\ pipeline = "wide"
    /\ ~accept.called
    /\ \E call \in CanAcceptCalls :
           accept' = [called |-> TRUE, method_name |-> call.method_name,
                      has_inputs |-> call.has_inputs,
                      result |-> Loader_can_accept(call.method_name, call.has_inputs,
                                                   inputs_metadata, hyperparams)]
    /\ UNCHANGED <<config, pc, locals>>

Formatter_CanAccept ==
    /\ pipeline = "long"
    /\ ~accept.called
    /\ \E call \in CanAcceptCalls :
           accept' = [called |-> TRUE, method_name |-> call.method_name,
                      has_inputs |-> call.has_inputs,
                      result |-> Formatter_can_accept(call.method_name, call.has_inputs,
                                                      inputs_metadata, hyperparams)]
    /\ UNCHANGED <<config, pc, locals>>

(* --------------------------------- produce ---------------------------- *)
\* an exception leaves produce: nothing is returned
Raise(e) ==
    /\ pc' = "failed"
    /\ err' = e
    /\ UNCHANGED result

\* variant: the failed read is swallowed and the loop goes on to the next row
Loader_read_csv_skipped ==
    /\ idx' = idx + 1
    /\ UNCHANGED <<pc, err, result, timeseries_dataframe>>

\* pd.read_csv raised inside the row loop: neither pipeline catches it
Loader_read_csv_raises ==
    /\ Raise(Exc("IOError", "read_csv", "cannot read series file"))
    /\ UNCHANGED <<idx, timeseries_dataframe>>

Formatter_read_csv_raises ==
    /\ Raise(Exc("IOError", "read_csv", "cannot read series file"))
    /\ UNCHANGED <<idx, timeseries_dataframe>>

\* os.path.join(base_path, file_path) for the row at position i
Csv_path(i) ==
    [base |-> base_path, file |-> inputs_rows[i + 1][file_index.v + 1]]

\* wide, lines 117-126: validate or infer the reference column
Loader_produce_resolve ==
    /\ pipeline = "wide"
    /\ pc = "idle"
    /\ LET r == Loader_resolve(inputs_metadata, hyperparams) IN
       /\ inferred' = r.inferred
       /\ file_index' = r.file_index
       /\ IF r.err = NoErr
          THEN pc' = "resolved" /\ UNCHANGED <<err, result>>
          ELSE Raise(r.err)
    /\ UNCHANGED <<config, accept, base_path, inputs_rows, idx, reads,
                   timeseries_dataframe>>

\* wide, line 132, and the start of the loop over inputs.iloc[:, file_index]
Loader_produce_base_path ==
    /\ pipeline = "wide"
    /\ pc = "resolved"
    /\ LET b == Loader_base_path(inputs_metadata, file_index.v) IN
       IF b.raised # "none"
       THEN /\ Raise(Exc(b.raised, "base_path", "location_base_uris"))
            /\ UNCHANGED <<base_path, inputs_rows>>
       ELSE /\ base_path' = b.path
            /\ \E n \in 0..MaxRows : inputs_rows' = Table(n)
            /\ pc' = "loop"
            /\ UNCHANGED <<err, result>>
    /\ UNCHANGED <<config, accept, file_index, inferred, idx, reads,
                   timeseries_dataframe>>

\* wide, lines 134-141: one iteration of the loop
Loader_produce_row ==
    /\ pipeline = "wide"
    /\ pc = "loop"
    /\ idx < Len(inputs_rows)
    /\ \E f \in WideFiles :
        /\ reads' = Append(reads, [row |-> idx, csv_path |-> Csv_path(idx), file |-> f])
        /\ IF ~f.readable
           THEN Loader_read_csv_raises
           ELSE /\ timeseries_dataframe' =
                       Loader_fold_row(timeseries_dataframe, idx, f.rows)
                /\ idx' = idx + 1
                /\ UNCHANGED <<pc, err, result>>
    /\ UNCHANGED <<config, accept, file_index, inferred, base_path, inputs_rows>>

\* wide, lines 144-147: reset the index and wrap.  With no input row the
\* local timeseries_dataframe was never assigned: UnboundLocalError.
Loader_produce_finish ==
    /\ pipeline = "wide"
    /\ pc = "loop"
    /\ idx = Len(inputs_rows)
    /\ IF ~timeseries_dataframe.bound
       THEN /\ Raise(Exc("UnboundLocalError", "reset_index",
                         "local variable referenced before assignment"))
            /\ UNCHANGED timeseries_dataframe
       ELSE /\ timeseries_dataframe' = DataFrame_reset_index(timeseries_dataframe)
            /\ result' = [returned |-> TRUE,
                          value |-> DataFrame_reset_index(timeseries_dataframe),
                          metadata |-> Generated_metadata(timeseries_dataframe.columns)]
            /\ pc' = "done"
            /\ UNCHANGED err
    /\ UNCHANGED <<config, accept, file_index, inferred, base_path, inputs_rows,
                   idx, reads>>

\* long, lines 135-146
Formatter_produce_resolve ==
    /\ pipeline = "long"
    /\ pc = "idle"
    /\ LET r == Formatter_resolve(inputs_metadata, hyperparams) IN
       /\ inferred' = r.inferred
       /\ file_index' = r.file_index
       /\ IF r.err = NoErr
          THEN pc' = "resolved" /\ UNCHANGED <<err, result>>
          ELSE Raise(r.err)
    /\ UNCHANGED <<config, accept, base_path, inputs_rows, idx, reads,
                   timeseries_dataframe>>

\* long, lines 149-151: base path, empty frame, start of iterrows()
Formatter_produce_base_path ==
    /\ pipeline = "long"
    /\ pc = "resolved"
    /\ LET b == Formatter_get_base_path(inputs_metadata,
                                        hyperparams.main_resource_index,
                                        file_index.v) IN
       IF b.raised # "none"
       THEN /\ Raise(Exc(b.raised, "base_path", "location_base_uris"))
            /\ UNCHANGED <<base_path, inputs_rows, timeseries_dataframe>>
       ELSE /\ base_path' = b.path
            /\ timeseries_dataframe' = EmptyFrame
            /\ \E n \in 0..MaxRows : inputs_rows' = Table(n)
            /\ pc' = "loop"
            /\ UNCHANGED <<err, result>>
    /\ UNCHANGED <<config, accept, file_index, inferred, idx, reads>>

\* the main row at position i as iterrows() yields it
Formatter_tRow(i) ==
    [c \in 1..MaxCols |-> Field(Name(ColumnNames[c]), inputs_rows[i + 1][c])]

\* long, lines 151-164: one iteration of the outer loop
Formatter_produce_row ==
    /\ pipeline = "long"
    /\ pc = "loop"
    /\ idx < Len(inputs_rows)
    /\ \E f \in LongFiles :
        /\ reads' = Append(reads, [row |-> idx, csv_path |-> Csv_path(idx), file |-> f])
        /\ IF ~f.readable
           THEN Formatter_read_csv_raises
           ELSE /\ timeseries_dataframe' =
                       DataFrame_append_all(timeseries_dataframe,
                           Formatter_emit_rows(
                               Formatter_augment(Formatter_tRow(idx), idx), f.rows))
                /\ idx' = idx + 1
                /\ UNCHANGED <<pc, err, result>>
    /\ UNCHANGED <<config, accept, file_index, inferred, base_path, inputs_rows>>

\* long, lines 166-179: the frame is wrapped as resource '0' of a Dataset
\* with generate_metadata=True.  The local `metadata` joined on lines
\* 167-175 (the main resource's columns followed by the referenced
\* resource's) is not passed to the container and is dropped.
Formatter_produce_finish ==
    /\ pipeline = "long"
    /\ pc = "loop"
    /\ idx = Len(inputs_rows)
    /\ result' = [returned |-> TRUE, value |-> timeseries_dataframe,
                  metadata |-> Generated_metadata(timeseries_dataframe.columns)]
    /\ pc' = "done"
    /\ UNCHANGED <<config, accept, file_index, inferred, base_path, inputs_rows,
                   idx, reads, timeseries_dataframe, err>>

Next ==
    \/ Loader_CanAccept
    \/ Formatter_CanAccept
    \/ Loader_produce_resolve
    \/ Loader_produce_base_path
    \/ Loader_produce_row
    \/ Loader_produce_finish
    \/ Formatter_produce_resolve
    \/ Formatter_produce_base_path
    \/ Formatter_produce_row
    \/ Formatter_produce_finish

Spec == Init /\ [][Next]_vars

(* ================================ properties ============================ *)
Terminal == pc \in {"done", "failed"}

\* can_accept was called for method 'produce' with the input's annotations
Probed == accept.called /\ accept.method_name = "produce" /\ accept.has_inputs

\* a configuration error: an exception raised while produce resolves the main
\* resource, the reference column or the base URI
ConfigurationError(e) ==
    e.type # "none" /\ e.at \in {"main_resource", "column", "inference", "base_path"}

\* the reference-column predicate of the running pipeline on column c
IsReferenceColumn(c) ==
    IF pipeline = "wide"
    THEN Loader_is_csv_file_column(inputs_metadata, c)
    ELSE Formatter_is_csv_file_column(inputs_metadata,
                                      hyperparams.main_resource_index, c)

MainResourceGiven == pipeline = "long" => hyperparams.main_resource_index # "None"

\* the column whose base-URI list locates the series files: the reference
\* column itself (wide), the column its foreign key points at (long)
BaseUriColumn ==
    IF pipeline = "wide"
    THEN query(inputs_metadata, DF, file_index.v)
    ELSE LET fk == query(inputs_metadata, hyperparams.main_resource_index,
                         file_index.v).foreign_key
         IN  query(inputs_metadata, fk.resource_id, fk.column_index)

RECURSIVE SumRows(_)
SumRows(rs) ==
    IF rs = <<>> THEN 0 ELSE Len(Head(rs).file.rows) + SumRows(Tail(rs))

\* C1: can_accept for 'produce' returns a match if and only if produce on
\* the same annotations and configuration does not fail with a
\* configuration error.
C1_AcceptIffNoConfigurationError ==
    (Probed /\ Terminal) =>
        ((accept.result = "inputs_metadata") <=> ~ConfigurationError(err))

\* C2: can_accept for 'produce' never raises: it returns a match or None.
C2_CanAcceptNeverRaises ==
    Probed => accept.result \in {"inputs_metadata", "None"}

\* C3: wide reshape, valid reference column and readable files: for every
\* row count N >= 0 produce returns a table of exactly N rows, one per input
\* row in input order, indexed 0..N-1.
C3_WideRowCount ==
    (pipeline = "wide" /\ Terminal /\ ~ConfigurationError(err) /\ err.at # "read_csv") =>
        /\ pc = "done"
        /\ result.returned
        /\ Len(result.value.rows) = Len(inputs_rows)
        /\ result.value.index = [k \in 1..Len(inputs_rows) |-> Pos(k - 1)]
        /\ \A k \in 1..Len(reads) : reads[k].row = k - 1

\* C4: wide reshape: the output's column headers are exactly the timestamps
\* of the series file of input row 0, in file order; later rows add none.
C4_WideHeaders ==
    (pipeline = "wide" /\ pc = "done") =>
        result.value.columns = Transposed_row(reads[1].file.rows, time_col_index)

C7_ExplicitInvalidRaisesInvalidArgument ==
    (/\ Terminal
     /\ hyperparams.file_col_index.some
     /\ MainResourceGiven
     /\ IsReferenceColumn(hyperparams.file_col_index.v) # "True") =>
        /\ pc = "failed"
        /\ err.type = "InvalidArgumentValueError"
        /\ err.at = "column"
        /\ reads = <<>>
        /\ ~inferred

\* C8: with file_col_index none and no column satisfying the
\* reference-column predicate, produce fails with InvalidArgumentValueError
\* 'no column ... contains csv file names' before any file is opened.
C8_InferenceFindsNoColumn ==
    (/\ Terminal
     /\ ~hyperparams.file_col_index.some
     /\ MainResourceGiven
     /\ \A c \in 0..(MaxCols - 1) : IsReferenceColumn(c) # "True") =>
        /\ pc = "failed"
        /\ err = Exc("InvalidArgumentValueError", "inference",
                     "no column contains csv file names")
        /\ reads = <<>>

\* C9: once the reference column is resolved, the base directory is the
\* first base URI declared on the reference column (wide) or on the column
\* its foreign key points at, one level only (long), and every series file
\* is read under it; with no base URI declared (absent or empty list) produce
\* fails at the base-path lookup, before any series file is read.
C9_BasePath ==
    (file_index.some /\ pc # "resolved") =>
        IF /\ BaseUriColumn.location_base_uris.declared
           /\ BaseUriColumn.location_base_uris.uris # <<>>
        THEN /\ base_path = Head(BaseUriColumn.location_base_uris.uris)
             /\ err.at # "base_path"
             /\ \A k \in 1..Len(reads) : reads[k].csv_path.base = base_path
        ELSE /\ pc = "failed"
             /\ ConfigurationError(err)
             /\ err.at = "base_path"
             /\ err.type = IF BaseUriColumn.location_base_uris.declared
                           THEN "IndexError" ELSE "KeyError"
             /\ reads = <<>>
             /\ ~result.returned

C9_Witness ==
    /\ pipeline = "long"
    /\ pc = "failed"
    /\ err.at = "base_path"
    /\ err.type = "IndexError"
    /\ file_index.some

\* C10: a failed read of the series file of row k fails the whole
\* invocation with that error: nothing is returned, rows 0..k-1 were read
\* before it in order, row k is not skipped and no later file is read.
C10_ReadFailureIsFatal ==
    /\ \A k \in 1..Len(reads) :
          ~reads[k].file.readable =>
              /\ k = Len(reads)
              /\ pc = "failed"
              /\ err.type = "IOError" /\ err.at = "read_csv"
    /\ err.at = "read_csv" =>
          /\ pc = "failed"
          /\ ~result.returned
          /\ reads # <<>>
          /\ ~reads[Len(reads)].file.readable
          /\ Len(reads) = idx + 1
          /\ \A k \in 1..Len(reads) : reads[k].row = k - 1
          /\ \A k \in 1..(Len(reads) - 1) : reads[k].file.readable

C10_Witness ==
    /\ pc = "failed"
    /\ err.at = "read_csv"
    /\ Len(reads) = 2
    /\ Len(timeseries_dataframe.rows) >= 1
    /\ ~result.returned

\* the annotation of the column an explicit file_col_index denotes (wide)
ExplicitColumn == query(inputs_metadata, DF, hyperparams.file_col_index.v)

\* produce validated the explicit index and went on with it
ExplicitAccepted ==
    pc # "idle" /\ file_index = hyperparams.file_col_index /\ err.at # "column"

\* C11 as stated: the wide pipeline accepts a column if and only if its
\* annotation exists, is a string column, is tagged filename and at least
\* one of time-series or csv, and its media types are a subset of {csv}.
C11_WidePredicateAsStated ==
    (pipeline = "wide" /\ hyperparams.file_col_index.some /\ pc # "idle") =>
        (ExplicitAccepted <=>
            /\ ExplicitColumn.present
            /\ ExplicitColumn.structural_type = "str"
            /\ "FileName" \in ExplicitColumn.semantic_types
            /\ \/ "Timeseries" \in ExplicitColumn.semantic_types
               \/ "text/csv" \in ExplicitColumn.semantic_types
                                 \cup ExplicitColumn.media_types
            /\ ExplicitColumn.media_types \subseteq {"text/csv"})

\* C11: the wide pipeline accepts a column as the reference column (produce
\* validates an explicit index, can_accept matches) if and only if its
\* annotation exists, its structural type is string, its tags include both
\* filename and time-series, and its media types include csv; further tags
\* and further media types do not matter.
C11_WidePredicate ==
    (pipeline = "wide" /\ hyperparams.file_col_index.some) =>
        LET holds == /\ ExplicitColumn.present
                     /\ ExplicitColumn.structural_type = "str"
                     /\ "FileName" \in ExplicitColumn.semantic_types
                     /\ "Timeseries" \in ExplicitColumn.semantic_types
                     /\ "text/csv" \in ExplicitColumn.media_types
        IN  /\ pc # "idle" => (ExplicitAccepted <=> holds)
            /\ Probed => ((accept.result = "inputs_metadata") <=> holds)

C11_Witness ==
    /\ pipeline = "wide" /\ hyperparams.file_col_index.some
    /\ pc = "done" /\ Probed /\ accept.result = "inputs_metadata"
    /\ "text/plain" \in ExplicitColumn.media_types
    /\ "Attribute" \in ExplicitColumn.semantic_types

\* the annotation of the main-table column an explicit file_col_index
\* denotes (long), and of the column its foreign key points at
MainColumn ==
    query(inputs_metadata, hyperparams.main_resource_index,
          hyperparams.file_col_index.v)

ReferencedColumn ==
    query(inputs_metadata, MainColumn.foreign_key.resource_id,
          MainColumn.foreign_key.column_index)

\* C12 as stated: the long pipeline accepts a main-table column if and only
\* if it is a string column with a foreign-key link whose target is a string
\* column tagged filename or time-series with csv media type; a target tagged
\* only text or attribute is not accepted.
C12_LongPredicateAsStated ==
    (/\ pipeline = "long" /\ hyperparams.main_resource_index # "None"
     /\ hyperparams.file_col_index.some /\ pc # "idle") =>
        (ExplicitAccepted <=>
            /\ MainColumn.present
            /\ MainColumn.structural_type = "str"
            /\ MainColumn.foreign_key.kind = "link"
            /\ ReferencedColumn.present
            /\ ReferencedColumn.structural_type = "str"
            /\ ReferencedColumn.semantic_types \cap {"FileName", "Timeseries"} # {}
            /\ "text/csv" \in ReferencedColumn.media_types)

\* C12: the long pipeline accepts a main-table column (produce validates an
\* explicit index, can_accept matches) if and only if it is a string column
\* with a foreign-key link whose target column is annotated, is a string
\* column, carries at least one of the tags filename, time-series, text,
\* attribute, and has csv among its media types; the main column's own tags
\* and media types are not looked at.
C12_LongPredicate ==
    (/\ pipeline = "long" /\ hyperparams.main_resource_index # "None"
     /\ hyperparams.file_col_index.some) =>
        LET holds ==
                /\ MainColumn.present
                /\ MainColumn.structural_type = "str"
                /\ MainColumn.foreign_key.kind = "link"
                /\ ReferencedColumn.present
                /\ ReferencedColumn.structural_type = "str"
                /\ ReferencedColumn.semantic_types
                       \cap {"FileName", "Timeseries", "Text", "Attribute"} # {}
                /\ "text/csv" \in ReferencedColumn.media_types
        IN  /\ pc # "idle" => (ExplicitAccepted <=> holds)
            /\ Probed => ((accept.result = "inputs_metadata") <=> holds)

C12_Witness ==
    /\ pipeline = "long" /\ hyperparams.main_resource_index # "None"
    /\ hyperparams.file_col_index.some
    /\ pc = "done" /\ Probed /\ accept.result = "inputs_metadata"
    /\ MainColumn.foreign_key.kind = "link"
    /\ ReferencedColumn.semantic_types = {"Text"}

\* the columns an explicit file_col_index would be accepted for
AcceptedColumns ==
    {c \in 0..(MaxCols - 1) : IsReferenceColumn(c) = "True"}

\* C13: with file_col_index none, inference resolves the lowest-index column
\* that satisfies the predicate an explicit index is validated with, and
\* fails only if no column satisfies it: produce goes on with that column,
\* and can_accept matches exactly when there is one.
C13_InferenceMatchesExplicit ==
    (~hyperparams.file_col_index.some /\ MainResourceGiven) =>
        /\ pc # "idle" =>
               IF AcceptedColumns = {}
               THEN pc = "failed" /\ err.at = "inference"
                    /\ err.type = "InvalidArgumentValueError"
               ELSE /\ inferred
                    /\ file_index = Some(Min(AcceptedColumns))
                    /\ err.at # "inference"
        /\ Probed => ((accept.result = "inputs_metadata") <=> AcceptedColumns # {})

\* C14: wide reshape: output row j holds the values of row j's series file
\* placed positionally under the headers: its k-th cell is the k-th value of
\* file j, whatever timestamps the files declare.
C14_WidePositionalPlacement ==
    (pipeline = "wide" /\ pc = "done") =>
        /\ Len(result.value.rows) = Len(reads)
        /\ \A j \in 1..Len(reads) :
              LET values == Transposed_row(reads[j].file.rows, value_col_index)
              IN  \A k \in 1..Len(values) :
                      /\ k <= Len(result.value.rows[j])
                      /\ result.value.rows[j][k] = values[k]

\* C15: long reshape: the returned table's column annotations are the main
\* table's column annotations first, then the synthesized identifier column,
\* then the series file's columns.
C15_OutputAnnotations ==
    (pipeline = "long" /\ pc = "done") =>
        /\ Len(result.metadata) = MaxCols + 1 + Len(SeriesColumns)
        /\ \A c \in 1..MaxCols :
              /\ result.metadata[c].name = Name(ColumnNames[c])
              /\ result.metadata[c].annotation =
                     inputs_metadata[hyperparams.main_resource_index][c]
        /\ result.metadata[MaxCols + 1].name = Pos(0)
        /\ \A k \in 1..Len(SeriesColumns) :
              result.metadata[MaxCols + 1 + k].name = Name(SeriesColumns[k])

\* the output rows the long reshape is said to give: per main row, in order,
\* one row per row of its series file, each the main row's fields, the
\* identifier, then the series row's fields
RECURSIVE ConcatenatedRows(_)
ConcatenatedRows(rs) ==
    IF rs = <<>> THEN <<>>
    ELSE ConcatenatedRows(SubSeq(rs, 1, Len(rs) - 1)) \o
         [k \in 1..Len(rs[Len(rs)].file.rows) |->
             Formatter_tRow(rs[Len(rs)].row)
             \o <<Field(Pos(0), rs[Len(rs)].row)>>
             \o Formatter_vRow(rs[Len(rs)].file.rows[k])]

\* C16: long reshape: each output row is, in this field order, the main
\* row's fields, the identifier field and the series row's fields; rows are
\* grouped by main row in main-row order and follow the file's row order
\* within a group.
C16_LongRows ==
    (pipeline = "long" /\ pc = "done") =>
        result.value.rows = ConcatenatedRows(reads)

====
